---- MODULE Spec2Model ----
(***************************************************************************)
(* JotItNow: the retrieval pipeline of the note-taking app.                *)
(*                                                                         *)
(* Spec      the embedding store (src/services/database.ts), the notes     *)
(*           slice (deleteNote, addNoteWithPersistence, updateNoteContent) *)
(*           and the summarize screen's generateSummary /                  *)
(*           processAndStoreEmbeddings, one process per invocation, every  *)
(*           await a point where the other handlers may run.               *)
(* SpecChat  the chat screen (src/screens/ChatScreen.tsx): handleSend with *)
(*           its awaits, handleStop, checkContent, over a table that holds *)
(*           what earlier runs of the app left.                            *)
(* SpecChatStore  the same while other screens write to the table.         *)
(* SpecStore the functions of the embedding store called one at a time,    *)
(*           each call recorded with its arguments, the table it found and *)
(*           what it returned.                                             *)
(* SpecVector  generateEmbedding and cosineSimilarity                      *)
(*           (src/services/vector.ts) called one at a time while the       *)
(*           vector context is loaded and unloaded.                        *)
(* SpecChunker  splitIntoChunks called on texts of a few sentences.        *)
(* SpecContext  loadVectorContext and unloadVectorContext with their       *)
(*           awaits, called without being awaited by the list screen.      *)
(* SpecInit  initDatabase with its await and onDatabaseInitialized.        *)
(*                                                                         *)
(* Text.  A string is a sequence of segments.  A segment is a maximal run  *)
(* of characters other than '.', '!' and '?' together with the run of      *)
(* terminators that follows it: s names its characters, w is the number of *)
(* whitespace-separated words in it, t says whether terminators follow     *)
(* (no segment with terminators follows one without), and a segment other  *)
(* than the first starts with whitespace.  A segment with w = 0 and no     *)
(* terminator is the whitespace at the end of the text.  The empty string  *)
(* is <<>>.                                                                *)
(***************************************************************************)
EXTENDS Integers, Sequences, FiniteSets, TLC

\* ------------------------------------------------------------------ bounds
MaxPasses == 2          \* invocations of generateSummary in one behaviour
MaxRecId == 4           \* the values Math.random() can give a record id
MaxTurns == 2           \* presses of the chat's send button in one behaviour
MaxWrites == 1          \* writes other screens make to the store during a chat
MaxK == 2               \* the integers SQLite can read from a note's id
MaxCalls == 3           \* calls of the service functions in one behaviour
MaxDim == 2             \* the length of the vectors cosineSimilarity is given
MaxSegs == 3            \* sentences and fragments of a text given to splitIntoChunks
MaxTarget == 3          \* the small targetLength values splitIntoChunks is given
MaxRequests == 4        \* calls of loadVectorContext and unloadVectorContext
MaxCallbacks == 4       \* callbacks given to onDatabaseInitialized

\* --------------------------------------------------------------- constants
DefaultTargetLength == 300      \* splitIntoChunks' targetLength default
DefaultLimit == 5               \* findSimilarChunks' limit default

NoteIds == {"n1", "n2"}
\* The note the user has open in this run of the app.
OpenNotes == {"n1"}
\* The summarize screens that can have a generateSummary in flight together.
Screens == {"a", "b"}
RecIds == 1..MaxRecId

Seg(s, w, t) == [s |-> s, w |-> w, t |-> t]

\* Two sentences of 200 words each: more than one chunk of 300 words.
LongText == << Seg("s1", 200, TRUE), Seg("s2", 200, TRUE) >>
\* One short sentence.
ShortText == << Seg("s3", 2, TRUE) >>
\* The contents a note is edited to.
Texts == {LongText, ShortText}

VARIABLES
    db,             \* database.db is not null
    notesTable,     \* the notes table: id -> content, for the rows that exist
    embeddings,     \* the embeddings table: a set of rows
    notes,          \* state.notes.notes of the Redux store: id -> content
    vectorContext,  \* vectorContext.llama is not null
    llamaContext,   \* llamaContext.llama is not null
    deleting,       \* the deleteNote thunks between their two DELETEs
    clock,          \* the invocations of generateSummary so far
    gen,            \* per screen: the number of its invocation
    pc,             \* where the screen's generateSummary stands
    pNoteId,        \* its noteId.current
    pText,          \* its transcribedText
    isLoading,      \* the screen's isLoading
    outcomes,       \* what happened to each chunk it has been through
    deleted,        \* its deleteNoteEmbeddings has executed the DELETE
    foreign,        \* writes others made to its note's rows since its DELETE
    unavailable,    \* it met a null database or a null vector context
    staleHit,       \* a DELETE removed a row of a later invocation
    escaped,        \* the error of one chunk left processAndStoreEmbeddings
    activeNoteId,   \* state.ui.activeNoteId of the Redux store, "" when null
    uuidDigits,     \* the integer the id of the open note starts with
    hasContent,     \* the chat screen's hasContent
    isTyping,       \* its isTyping
    messages,       \* its messages
    usedChunks,     \* its usedChunks.current
    chatContext,    \* its chatContext.current: the prompts and completions
    turns,          \* the invocations of its handleSend
    lastDeleted,    \* the note of the latest write to the table, if a DELETE
    writes,         \* the writes other screens made during the chat
    filteredOut,    \* a chunk the search returned was left out as used
    lastCall,       \* the latest call of a service function and its outcome
    calls,          \* the calls of service functions so far
    ctxHandle,      \* the model context vectorContext.llama holds, 0 for null
    ctxLive,        \* the model contexts initialized and not released
    ctxNext,        \* the model contexts initLlama has returned so far
    loads,          \* the loadVectorContext calls awaiting initLlama
    releasing,      \* per unloadVectorContext awaiting release(): its context
    lastRequest,    \* the latest of loadVectorContext and unloadVectorContext
    requests,       \* the calls of the two so far
    initPc,         \* where the app's initDatabase stands
    initCallbacks,  \* database.ts' initCallbacks
    registered,     \* the callbacks given to onDatabaseInitialized so far
    invoked         \* per callback: how often it has been called

vars == << db, notesTable, embeddings, notes, vectorContext, llamaContext,
           deleting, clock, gen, pc, pNoteId, pText, isLoading, outcomes,
           deleted, foreign, unavailable, staleHit, escaped, activeNoteId,
           uuidDigits, hasContent, isTyping, messages, usedChunks,
           chatContext, turns, lastDeleted, writes, filteredOut, lastCall,
           calls, ctxHandle, ctxLive, ctxNext, loads, releasing,
           lastRequest, requests, initPc, initCallbacks, registered,
           invoked >>

storeVars == << db, notesTable, embeddings, notes, deleting >>
backendVars == << vectorContext, llamaContext >>
passVars == << clock, gen, pc, pNoteId, pText, isLoading, outcomes, deleted,
               foreign, unavailable, staleHit, escaped >>
chatVars == << activeNoteId, uuidDigits, hasContent, isTyping, messages,
               usedChunks, chatContext, turns, lastDeleted, writes,
               filteredOut >>
apiVars == << lastCall, calls >>
initVars == << initPc, initCallbacks, registered, invoked >>
lifeVars == << ctxHandle, ctxLive, ctxNext, loads, releasing, lastRequest,
              requests, initPc, initCallbacks, registered, invoked >>

\* ---------------------------------------------------------------- strings
RECURSIVE SumWords(_)
SumWords(str) ==
    IF str = << >> THEN 0 ELSE Head(str).w + SumWords(Tail(str))

\* String.prototype.trim: whitespace goes from both ends.  In a string of
\* segments only the last segment can be whitespace alone.
trim(str) ==
    IF str # << >> /\ str[Len(str)].w = 0 /\ ~str[Len(str)].t
    THEN SubSeq(str, 1, Len(str) - 1)
    ELSE str

\* str.trim().split(/\s+/).length: the empty string splits into [""].
wordCount(str) ==
    IF SumWords(trim(str)) = 0 THEN 1 ELSE SumWords(trim(str))

\* Mutant: the match alone, without the '|| [text]' fallback.
sentencesNoFallback(text) ==
    LET m == SelectSeq(text, LAMBDA g : g.t)
    IN  [i \in 1..Len(m) |-> << m[i] >>]

\* text.match(/[^.!?]+[.!?]+/g) || [text]: the terminated segments, one
\* sentence each; a text without any is one sentence as a whole.
sentences(text) ==
    LET m == SelectSeq(text, LAMBDA g : g.t)
    IN  IF m = << >> THEN << text >> ELSE [i \in 1..Len(m) |-> << m[i] >>]

\* Mutant: the chunk is closed once it is over the target itself.
StartsNewChunkLate(potentialChunk, currentChunk, targetLength) ==
    wordCount(currentChunk) > targetLength /\ currentChunk # << >>

\* wordCount > targetLength && currentChunk: the sentence would take the
\* chunk over the target, and the chunk has content.
StartsNewChunk(potentialChunk, currentChunk, targetLength) ==
    wordCount(potentialChunk) > targetLength /\ currentChunk # << >>

RECURSIVE splitLoop(_, _, _, _)
splitLoop(sents, chunks, currentChunk, targetLength) ==
    IF sents = << >>
    THEN IF trim(currentChunk) # << >>
         THEN Append(chunks, trim(currentChunk))
         ELSE chunks
    ELSE LET sentence == Head(sents)
             potentialChunk == currentChunk \o sentence
         IN  IF StartsNewChunk(potentialChunk, currentChunk, targetLength)
             THEN splitLoop(Tail(sents), Append(chunks, trim(currentChunk)),
                            sentence, targetLength)
             ELSE splitLoop(Tail(sents), chunks, potentialChunk, targetLength)

splitIntoChunks(text, targetLength) ==
    splitLoop(sentences(text), << >>, << >>, targetLength)

\* -------------------------------------------------------------- embedding
\* The embedding model, a fixed function of the text: one coordinate, the
\* sum of a code per segment.
SegCode(s) ==
    CASE s = "s1" -> 1
      [] s = "s2" -> 2
      [] s = "s3" -> 4
      [] OTHER -> 0

RECURSIVE llamaEmbedding(_)
llamaEmbedding(str) ==
    IF str = << >> THEN 0 ELSE SegCode(Head(str).s) + llamaEmbedding(Tail(str))

\* ------------------------------------------------------------- the tables
Range(f) == {f[i] : i \in DOMAIN f}

\* A function with one pair changed.
Put(f, k, v) == [x \in DOMAIN f |-> IF x = k THEN v ELSE f[x]]
\* A function without a key.
Drop(f, k) == [x \in DOMAIN f \ {k} |-> f[x]]

\* INSERT INTO embeddings (id, noteId, chunk, embedding) VALUES (?, ?, ?, ?).
\* gen and noteExisted are not columns: they record which invocation wrote
\* the row and whether the notes table held the note at that moment.
EmbeddingRow(id, noteId, chunk, embedding, g) ==
    [id |-> id, noteId |-> noteId, chunk |-> chunk, embedding |-> embedding,
     gen |-> g, noteExisted |-> noteId \in DOMAIN notesTable]

\* id TEXT PRIMARY KEY: the insert of an id the table holds fails.
InsertFails(id) == \E r \in embeddings : r.id = id

\* Math.random().toString(36).substring(7).  The ids are opaque: of the
\* values no row has, trying the least stands for trying any.
RandomIds ==
    LET held == {r.id : r \in embeddings}
        free == RecIds \ held
    IN  held \cup {i \in free : \A j \in free : i <= j}

\* Mutant: the DELETE filters on the wrong column (WHERE id = ?), and no
\* row's id is a note id.
RowsAfterDeleteById(noteId) == embeddings

\* Mutant: the DELETE removes one row of the note at a time (LIMIT 1).
RowsAfterDeleteOne(noteId) ==
    IF \E r \in embeddings : r.noteId = noteId
    THEN embeddings \ {CHOOSE r \in embeddings : r.noteId = noteId}
    ELSE embeddings

\* DELETE FROM embeddings WHERE noteId = ?
RowsAfterDelete(noteId) == {r \in embeddings : r.noteId # noteId}

RowsOf(noteId) == {r \in embeddings : r.noteId = noteId}

\* ---------------------------------------------------------- the processes
\* Between its DELETE and its return, processAndStoreEmbeddings is inserting
\* the rows of its note.
InsertPhase == {"pas_embed", "pas_store"}
CriticalSection == InsertPhase \cup {"pas_done"}

chunksOf(s) == splitIntoChunks(pText[s], DefaultTargetLength)

\* The writes an operation other than actor makes to the rows of note n, as
\* seen by the invocations that are in their critical section for n.
NoteForeign(actor, n, kind) ==
    [q \in Screens |->
        IF q # actor /\ pc[q] \in CriticalSection /\ pNoteId[q] = n
        THEN foreign[q] \cup {kind}
        ELSE foreign[q]]

\* state.ui.activeNoteId is null.
NoNote == ""

\* No summarize screen has a generateSummary in flight.
InitPasses ==
    /\ deleting = {}
    /\ clock = 0
    /\ gen = [s \in Screens |-> 0]
    /\ pc = [s \in Screens |-> "idle"]
    /\ pNoteId = [s \in Screens |-> "n1"]
    /\ pText = [s \in Screens |-> << >>]
    /\ isLoading = [s \in Screens |-> FALSE]
    /\ outcomes = [s \in Screens |-> << >>]
    /\ deleted = [s \in Screens |-> FALSE]
    /\ foreign = [s \in Screens |-> {}]
    /\ unavailable = [s \in Screens |-> FALSE]
    /\ staleHit = FALSE
    /\ escaped = FALSE

\* A chat screen as it is mounted.
InitChatScreen ==
    /\ hasContent = FALSE
    /\ isTyping = FALSE
    /\ messages = << >>
    /\ usedChunks = {}
    /\ chatContext = << >>
    /\ turns = << >>
    /\ lastDeleted = NoNote
    /\ writes = 0
    /\ filteredOut = FALSE

\* No service function has been called.
NoCall == [op |-> "none"]

\* The callbacks a screen can give to onDatabaseInitialized.
Callbacks == 1..MaxCallbacks

\* The module state of vector.ts and database.ts when the app starts: no
\* model context, no call in flight, initCallbacks = [].
InitLife ==
    /\ ctxHandle = 0
    /\ ctxLive = {}
    /\ ctxNext = 0
    /\ loads = 0
    /\ releasing = << >>
    /\ lastRequest = [kind |-> "none", afterLoad |-> FALSE]
    /\ requests = 0
    /\ initPc = "idle"
    /\ initCallbacks = << >>
    /\ registered = {}
    /\ invoked = [c \in Callbacks |-> 0]

\* The tables as an earlier run of the app left them: two notes, each with
\* the row of its one chunk.
Init ==
    /\ db = FALSE
    /\ notesTable = [n \in NoteIds |-> ShortText]
    /\ embeddings = {[id |-> 1, noteId |-> "n1", chunk |-> ShortText,
                      embedding |-> llamaEmbedding(ShortText),
                      gen |-> 0, noteExisted |-> TRUE],
                     [id |-> 2, noteId |-> "n2", chunk |-> ShortText,
                      embedding |-> llamaEmbedding(ShortText),
                      gen |-> 0, noteExisted |-> TRUE]}
    /\ notes = << >>
    /\ vectorContext = FALSE
    /\ llamaContext = FALSE
    /\ InitPasses
    /\ activeNoteId = NoNote
    /\ uuidDigits = [n \in OpenNotes |-> 0]
    /\ InitChatScreen
    /\ lastCall = NoCall
    /\ calls = 0
    /\ InitLife

\* --------------------------------------------------- services/database.ts
\* initDatabase: open, create the tables, set database.db, run the
\* callbacks, which dispatch fetchNotes.  A failure leaves all as it was.
initDatabase ==
    /\ ~db
    /\ db' = TRUE
    /\ UNCHANGED << notesTable, embeddings, notes, deleting >>
    /\ UNCHANGED backendVars
    /\ UNCHANGED passVars
    /\ UNCHANGED chatVars
    /\ UNCHANGED apiVars
    /\ UNCHANGED lifeVars

\* ------------------------------------------------------ store/noteSlice.ts
\* fetchNotes, dispatched when the database is initialised and when the
\* note list is mounted or focused: SELECT * FROM notes, into the store.
fetchNotes ==
    /\ db
    /\ notes # notesTable
    /\ notes' = notesTable
    /\ UNCHANGED << db, notesTable, embeddings, deleting >>
    /\ UNCHANGED backendVars
    /\ UNCHANGED passVars
    /\ UNCHANGED chatVars
    /\ UNCHANGED apiVars
    /\ UNCHANGED lifeVars

\* UPDATE notes SET content = ? WHERE id = ?, then the fulfilled reducer.
TableAfterUpdate(n, content) ==
    IF n \in DOMAIN notesTable THEN Put(notesTable, n, content) ELSE notesTable
NotesAfterUpdate(n, content) ==
    IF n \in DOMAIN notes THEN Put(notes, n, content) ELSE notes

\* The record screen saves the text of the note it shows.
updateNoteContent(n, content) ==
    /\ n \in DOMAIN notes
    /\ notes[n] # content
    /\ db
    /\ notesTable' = TableAfterUpdate(n, content)
    /\ notes' = NotesAfterUpdate(n, content)
    /\ UNCHANGED << db, embeddings, deleting >>
    /\ UNCHANGED backendVars
    /\ UNCHANGED passVars
    /\ UNCHANGED chatVars
    /\ UNCHANGED apiVars
    /\ UNCHANGED lifeVars

\* deleteNote, up to its first await: DELETE FROM embeddings WHERE noteId.
deleteNoteEmbeddingRows(n) ==
    /\ n \in DOMAIN notes
    /\ n \notin deleting
    /\ db
    /\ embeddings' = RowsAfterDelete(n)
    /\ foreign' = NoteForeign("deleteNote", n, "delete")
    /\ deleting' = deleting \cup {n}
    /\ UNCHANGED << db, notesTable, notes >>
    /\ UNCHANGED backendVars
    /\ UNCHANGED << clock, gen, pc, pNoteId, pText, isLoading, outcomes,
                    deleted, unavailable, staleHit, escaped >>
    /\ UNCHANGED chatVars
    /\ UNCHANGED apiVars
    /\ UNCHANGED lifeVars

\* deleteNote, the rest: DELETE FROM notes WHERE id, then the fulfilled
\* reducer.
deleteNoteRow(n) ==
    /\ n \in deleting
    /\ deleting' = deleting \ {n}
    /\ notesTable' = Drop(notesTable, n)
    /\ notes' = Drop(notes, n)
    /\ UNCHANGED << db, embeddings >>
    /\ UNCHANGED backendVars
    /\ UNCHANGED passVars
    /\ UNCHANGED chatVars
    /\ UNCHANGED apiVars
    /\ UNCHANGED lifeVars

\* ----------------------------------------- services/vector.ts and llama.ts
loadVectorContext ==
    /\ ~vectorContext
    /\ vectorContext' = TRUE
    /\ UNCHANGED llamaContext
    /\ UNCHANGED storeVars
    /\ UNCHANGED passVars
    /\ UNCHANGED chatVars
    /\ UNCHANGED apiVars
    /\ UNCHANGED lifeVars

unloadVectorContext ==
    /\ vectorContext
    /\ vectorContext' = FALSE
    /\ UNCHANGED llamaContext
    /\ UNCHANGED storeVars
    /\ UNCHANGED passVars
    /\ UNCHANGED chatVars
    /\ UNCHANGED apiVars
    /\ UNCHANGED lifeVars

loadLlamaContext ==
    /\ ~llamaContext
    /\ llamaContext' = TRUE
    /\ UNCHANGED vectorContext
    /\ UNCHANGED storeVars
    /\ UNCHANGED passVars
    /\ UNCHANGED chatVars
    /\ UNCHANGED apiVars
    /\ UNCHANGED lifeVars

unloadLlamaContext ==
    /\ llamaContext
    /\ llamaContext' = FALSE
    /\ UNCHANGED vectorContext
    /\ UNCHANGED storeVars
    /\ UNCHANGED passVars
    /\ UNCHANGED chatVars
    /\ UNCHANGED apiVars
    /\ UNCHANGED lifeVars

\* ------------------------------------------- screens/SummarizeScreen.tsx
\* The loop of processAndStoreEmbeddings after k chunks: the next chunk, or
\* the return when there is none.
AfterChunk(s, k) ==
    IF k < Len(chunksOf(s)) THEN "pas_embed" ELSE "pas_done"

\* Mutant: no catch around the chunk; the error leaves the loop and the
\* function, into the catch of generateSummary.
AfterChunkErrorThrown(s, k) == "idle"

\* The catch around one chunk logs the error and the loop goes on.
AfterChunkError(s, k) == AfterChunk(s, k)

\* Mutant: deleteNoteEmbeddings is not called before the loop.
AfterGuardNoDelete(s) == AfterChunk(s, 0)

\* processAndStoreEmbeddings deletes the note's rows before its loop.
AfterGuard(s) == "pas_delete"

\* What an invocation keeps besides its place in the code.
locals == << isLoading, gen, pText, outcomes, deleted, foreign, unavailable >>

\* The finally of generateSummary, after its try has returned or thrown and
\* its catch has run: the invocation is over and its locals are gone.
endGenerateSummary(s) ==
    /\ pc' = [pc EXCEPT ![s] = "idle"]
    /\ isLoading' = [isLoading EXCEPT ![s] = FALSE]
    /\ gen' = [gen EXCEPT ![s] = 0]
    /\ pText' = [pText EXCEPT ![s] = << >>]
    /\ outcomes' = [outcomes EXCEPT ![s] = << >>]
    /\ deleted' = [deleted EXCEPT ![s] = FALSE]
    /\ foreign' = [foreign EXCEPT ![s] = {}]
    /\ unavailable' = [unavailable EXCEPT ![s] = FALSE]

\* generateSummary calls processAndStoreEmbeddings(transcribedText,
\* noteId.current), which returns at once without text or note id.
callProcessAndStoreEmbeddings(s) ==
    IF pText[s] = << >>
    THEN endGenerateSummary(s)
    ELSE pc' = [pc EXCEPT ![s] = AfterGuard(s)] /\ UNCHANGED locals

\* note?.content is truthy: the store holds the note and its text is not "".
HasContent(n) == IF n \in DOMAIN notes THEN notes[n] # << >> ELSE FALSE

\* A summarize screen is mounted: useState(false).
mountSummarizeScreen(s) ==
    /\ pc[s] = "idle"
    /\ isLoading[s]
    /\ isLoading' = [isLoading EXCEPT ![s] = FALSE]
    /\ UNCHANGED << clock, gen, pc, pNoteId, pText, outcomes, deleted,
                    foreign, unavailable, staleHit, escaped >>
    /\ UNCHANGED storeVars
    /\ UNCHANGED backendVars
    /\ UNCHANGED chatVars
    /\ UNCHANGED apiVars
    /\ UNCHANGED lifeVars

\* generateSummary up to its first await, pressed on a screen whose
\* activeNoteId is n: no content, no summary; isLoading; no model, no
\* summary (and isLoading stays); else the summary completion is awaited.
generateSummary(s, n) ==
    /\ pc[s] = "idle"
    /\ ~isLoading[s]
    /\ clock < MaxPasses
    /\ clock' = clock + 1
    /\ IF ~HasContent(n)
       THEN UNCHANGED << gen, pc, pNoteId, pText, isLoading >>
       ELSE /\ isLoading' = [isLoading EXCEPT ![s] = TRUE]
            /\ IF llamaContext
               THEN /\ pc' = [pc EXCEPT ![s] = "summary"]
                    /\ gen' = [gen EXCEPT ![s] = clock + 1]
                    /\ pNoteId' = [pNoteId EXCEPT ![s] = n]
                    /\ pText' = [pText EXCEPT ![s] = notes[n]]
               ELSE UNCHANGED << gen, pc, pNoteId, pText >>
    /\ UNCHANGED << outcomes, deleted, foreign, unavailable, staleHit, escaped >>
    /\ UNCHANGED storeVars
    /\ UNCHANGED backendVars
    /\ UNCHANGED chatVars
    /\ UNCHANGED apiVars
    /\ UNCHANGED lifeVars

\* The summary completion returns: a result, or nothing / an error.
summaryCompletion(s) ==
    /\ pc[s] = "summary"
    /\ \E ok \in BOOLEAN :
        IF ok
        THEN pc' = [pc EXCEPT ![s] = "title"] /\ UNCHANGED locals
        ELSE endGenerateSummary(s)
    /\ UNCHANGED << clock, pNoteId, staleHit, escaped >>
    /\ UNCHANGED storeVars
    /\ UNCHANGED backendVars
    /\ UNCHANGED chatVars
    /\ UNCHANGED apiVars
    /\ UNCHANGED lifeVars

\* The title completion returns: a title (the note is then updated), nothing
\* (the embeddings come next), or an error.
titleCompletion(s) ==
    /\ pc[s] = "title"
    /\ \E r \in {"title", "nothing", "error"} :
        CASE r = "title" -> pc' = [pc EXCEPT ![s] = "update"] /\ UNCHANGED locals
          [] r = "nothing" -> callProcessAndStoreEmbeddings(s)
          [] OTHER -> endGenerateSummary(s)
    /\ UNCHANGED << clock, pNoteId, staleHit, escaped >>
    /\ UNCHANGED storeVars
    /\ UNCHANGED backendVars
    /\ UNCHANGED chatVars
    /\ UNCHANGED apiVars
    /\ UNCHANGED lifeVars

\* await dispatch(updateNoteContent({id: noteId.current, content:
\* transcribedText, ...})): the thunk rejects without a database, and the
\* dispatch never throws.
summaryUpdateNote(s) ==
    /\ pc[s] = "update"
    /\ IF db
       THEN /\ notesTable' = TableAfterUpdate(pNoteId[s], pText[s])
            /\ notes' = NotesAfterUpdate(pNoteId[s], pText[s])
       ELSE UNCHANGED << notesTable, notes >>
    /\ callProcessAndStoreEmbeddings(s)
    /\ UNCHANGED << clock, pNoteId, staleHit, escaped >>
    /\ UNCHANGED << db, embeddings, deleting >>
    /\ UNCHANGED backendVars
    /\ UNCHANGED chatVars
    /\ UNCHANGED apiVars
    /\ UNCHANGED lifeVars

\* await deleteNoteEmbeddings(noteId): nothing without a database; the
\* DELETE; its error is rethrown and ends generateSummary in its catch.
\* Then the text is split and the loop starts.
pasDelete(s) ==
    /\ pc[s] = "pas_delete"
    /\ IF ~db
       THEN /\ pc' = [pc EXCEPT ![s] = AfterChunk(s, 0)]
            /\ unavailable' = [unavailable EXCEPT ![s] = TRUE]
            /\ UNCHANGED << embeddings, staleHit, isLoading, gen, pText,
                            outcomes, deleted, foreign >>
       ELSE \E ok \in BOOLEAN :
            IF ok
            THEN /\ embeddings' = RowsAfterDelete(pNoteId[s])
                 /\ deleted' = [deleted EXCEPT ![s] = TRUE]
                 /\ foreign' = NoteForeign(s, pNoteId[s], "delete")
                 /\ staleHit' = (staleHit \/
                        \E r \in RowsOf(pNoteId[s]) : r.gen > gen[s])
                 /\ pc' = [pc EXCEPT ![s] = AfterChunk(s, 0)]
                 /\ UNCHANGED << isLoading, gen, pText, outcomes, unavailable >>
            ELSE /\ endGenerateSummary(s)
                 /\ UNCHANGED << embeddings, staleHit >>
    /\ UNCHANGED << clock, pNoteId, escaped >>
    /\ UNCHANGED << db, notesTable, notes, deleting >>
    /\ UNCHANGED backendVars
    /\ UNCHANGED chatVars
    /\ UNCHANGED apiVars
    /\ UNCHANGED lifeVars

\* await generateEmbedding(chunk): null without a vector context or when
\* the model fails, and the chunk is then passed over with a warning.
pasEmbed(s) ==
    /\ pc[s] = "pas_embed"
    /\ LET k == Len(outcomes[s]) + 1
       IN  IF ~vectorContext
           THEN /\ outcomes' = [outcomes EXCEPT ![s] = Append(@, "no embedding")]
                /\ unavailable' = [unavailable EXCEPT ![s] = TRUE]
                /\ pc' = [pc EXCEPT ![s] = AfterChunk(s, k)]
           ELSE \E ok \in BOOLEAN :
                IF ok
                THEN /\ pc' = [pc EXCEPT ![s] = "pas_store"]
                     /\ UNCHANGED << outcomes, unavailable >>
                ELSE /\ outcomes' = [outcomes EXCEPT ![s] = Append(@, "no embedding")]
                     /\ pc' = [pc EXCEPT ![s] = AfterChunk(s, k)]
                     /\ UNCHANGED unavailable
    /\ UNCHANGED << clock, gen, pNoteId, pText, isLoading, deleted, foreign,
                    staleHit, escaped >>
    /\ UNCHANGED storeVars
    /\ UNCHANGED backendVars
    /\ UNCHANGED chatVars
    /\ UNCHANGED apiVars
    /\ UNCHANGED lifeVars

\* await storeEmbedding(noteId, chunk, embedding): nothing without a
\* database; an id from Math.random(); the INSERT; its error is rethrown to
\* the catch around the chunk.  An error that got past that catch would end
\* generateSummary in its own catch.
pasStore(s) ==
    /\ pc[s] = "pas_store"
    /\ LET k == Len(outcomes[s]) + 1
           chunk == chunksOf(s)[k]
       IN  IF ~db
           THEN /\ outcomes' = [outcomes EXCEPT ![s] = Append(@, "no database")]
                /\ unavailable' = [unavailable EXCEPT ![s] = TRUE]
                /\ pc' = [pc EXCEPT ![s] = AfterChunk(s, k)]
                /\ UNCHANGED << embeddings, foreign, isLoading, gen, pText,
                                deleted, escaped >>
           ELSE \E id \in RandomIds, ok \in BOOLEAN :
                IF ok /\ ~InsertFails(id)
                THEN /\ embeddings' = embeddings \cup
                        {EmbeddingRow(id, pNoteId[s], chunk,
                                      llamaEmbedding(chunk), gen[s])}
                     /\ foreign' = NoteForeign(s, pNoteId[s], "insert")
                     /\ outcomes' = [outcomes EXCEPT ![s] = Append(@, "stored")]
                     /\ pc' = [pc EXCEPT ![s] = AfterChunk(s, k)]
                     /\ UNCHANGED << unavailable, isLoading, gen, pText,
                                     deleted, escaped >>
                ELSE /\ UNCHANGED embeddings
                     /\ IF AfterChunkError(s, k) \in CriticalSection
                        THEN /\ outcomes' = [outcomes EXCEPT ![s] =
                                                Append(@, "error")]
                             /\ pc' = [pc EXCEPT ![s] = AfterChunkError(s, k)]
                             /\ UNCHANGED << foreign, unavailable, isLoading,
                                             gen, pText, deleted, escaped >>
                        ELSE /\ endGenerateSummary(s)
                             /\ escaped' = TRUE
    /\ UNCHANGED << clock, pNoteId, staleHit >>
    /\ UNCHANGED << db, notesTable, notes, deleting >>
    /\ UNCHANGED backendVars
    /\ UNCHANGED chatVars
    /\ UNCHANGED apiVars
    /\ UNCHANGED lifeVars

\* processAndStoreEmbeddings has returned; generateSummary resumes and goes
\* through its finally.
pasReturn(s) ==
    /\ pc[s] = "pas_done"
    /\ endGenerateSummary(s)
    /\ UNCHANGED << clock, pNoteId, staleHit, escaped >>
    /\ UNCHANGED storeVars
    /\ UNCHANGED backendVars
    /\ UNCHANGED chatVars
    /\ UNCHANGED apiVars
    /\ UNCHANGED lifeVars

\* ------------------------------------------------ screens/ChatScreen.tsx
\* What the user asks and what the model answers.
Queries == { << Seg("s1", 3, TRUE) >> }
ReplyText == << Seg("reply", 5, TRUE) >>
ErrorText == << Seg("sorry", 8, TRUE) >>

\* The chunks the summarize screens store: those of the texts of the notes.
ChunkTexts ==
    UNION {Range(splitIntoChunks(t, DefaultTargetLength)) : t \in Texts}

\* generateEmbedding returned null.
null == << >>

\* The distance of two one-coordinate vectors.
Distance(a, b) == IF a >= b THEN a - b ELSE b - a

\* A JavaScript value bound to a parameter of a statement.
JsString(s) == [type |-> "text", value |-> s]
JsNumber(n) == [type |-> "integer", value |-> n]

\* The integer SQLite reads from a value bound where it expects one: of a
\* text the digits it starts with, 0 when it starts with none.
SqlInteger(v) ==
    IF v.type = "integer" THEN v.value
    ELSE IF v.value = NoNote THEN 0 ELSE uuidDigits[v.value]

\* Mutant: the k nearest rows come in no particular order.
KNearestUnordered(e, k) ==
    LET n == IF k < Cardinality(embeddings) THEN k ELSE Cardinality(embeddings)
        d(r) == Distance(r.embedding, e)
    IN  {q \in [1..n -> embeddings] :
            /\ \A i, j \in 1..n : i < j => q[i] # q[j]
            /\ \A r \in embeddings \ Range(q) :
                  \A i \in 1..n : d(q[i]) <= d(r)}

\* WHERE embedding MATCH ? AND k = ?: the k rows nearest to the vector,
\* nearest first, rows at the same distance in any order.  No column but
\* embedding takes part.
KNearest(e, k) ==
    LET n == IF k < Cardinality(embeddings) THEN k ELSE Cardinality(embeddings)
        d(r) == Distance(r.embedding, e)
    IN  {q \in [1..n -> embeddings] :
            /\ \A i, j \in 1..n : i < j => q[i] # q[j] /\ d(q[i]) <= d(q[j])
            /\ \A r \in embeddings \ Range(q) :
                  \A i \in 1..n : d(q[i]) <= d(r)}

\* What the query of findSimilarChunks can give when it does not throw:
\* rows.map(row => ({noteId, chunk, distance})).
QueryRows(embedding, limit) ==
    {[i \in DOMAIN q |->
         [noteId |-> q[i].noteId, chunk |-> q[i].chunk,
          distance |-> Distance(q[i].embedding, embedding[1])]] :
     q \in KNearest(embedding[1], SqlInteger(limit))}

\* findSimilarChunks(embedding, limit): the results it can resolve to.  []
\* without an embedding, without a database and when the query throws;
\* else the rows of the query as {noteId, chunk, distance}.
findSimilarChunks(embedding, limit) ==
    IF embedding = null \/ ~db
    THEN {<< >>}
    ELSE {<< >>} \cup QueryRows(embedding, limit)

\* hasAnyChunks(noteId): whether the table holds a row of the note.
hasAnyChunks(noteId) == db /\ RowsOf(noteId) # {}

\* The effect on [activeNoteId, isFocused]: checkContent.
checkContent ==
    /\ hasContent # hasAnyChunks(activeNoteId)
    /\ hasContent' = hasAnyChunks(activeNoteId)
    /\ UNCHANGED << activeNoteId, uuidDigits, isTyping, messages, usedChunks,
                    chatContext, turns, lastDeleted, writes, filteredOut, lastCall,
           calls >>
    /\ UNCHANGED storeVars
    /\ UNCHANGED backendVars
    /\ UNCHANGED passVars
    /\ UNCHANGED apiVars
    /\ UNCHANGED lifeVars

\* addMessage(text, isUser); the id of a message is the time.
addMessage(text, isUser) ==
    messages' = Append(messages, [text |-> text, isUser |-> isUser])

\* Mutant: the prompt is a first prompt until the model has answered.
FirstPromptUntilReply(msgs) ==
    \A i \in DOMAIN msgs : msgs[i].isUser \/ msgs[i].text = ErrorText

\* messages.length == 0 chooses firstPrompt, with the system prompt.
FirstPrompt(msgs) == msgs = << >>

\* An invocation of handleSend that is over.
Returned ==
    [pc |-> "returned", inputText |-> << >>, activeNoteId |-> NoNote,
     first |-> FALSE, embedding |-> null, similarChunks |-> << >>,
     afterDelete |-> FALSE]

\* handleSend up to its first await.  The send button is there when
\* isTyping is false and enabled when hasContent is true; the handler does
\* nothing for an input that trims to "".
handleSend(inputText) ==
    /\ hasContent
    /\ ~isTyping
    /\ Len(turns) < MaxTurns
    /\ trim(inputText) # << >>
    /\ addMessage(inputText, TRUE)
    /\ isTyping' = TRUE
    /\ turns' = Append(turns,
            [pc |-> "embedding", inputText |-> inputText,
             activeNoteId |-> activeNoteId, first |-> FirstPrompt(messages),
             embedding |-> null, similarChunks |-> << >>,
             afterDelete |-> FALSE])
    /\ UNCHANGED << activeNoteId, uuidDigits, hasContent, usedChunks,
                    chatContext, lastDeleted, writes, filteredOut >>
    /\ UNCHANGED storeVars
    /\ UNCHANGED backendVars
    /\ UNCHANGED passVars
    /\ UNCHANGED apiVars
    /\ UNCHANGED lifeVars

\* handleStop: stopCompletion and setIsTyping(false).
handleStop ==
    /\ hasContent
    /\ isTyping
    /\ isTyping' = FALSE
    /\ UNCHANGED << activeNoteId, uuidDigits, hasContent, messages, usedChunks,
                    chatContext, turns, lastDeleted, writes, filteredOut, lastCall,
           calls >>
    /\ UNCHANGED storeVars
    /\ UNCHANGED backendVars
    /\ UNCHANGED passVars
    /\ UNCHANGED apiVars
    /\ UNCHANGED lifeVars

\* await generateEmbedding(inputText): null without a vector context or
\* when the model fails.
sendEmbedding(t) ==
    /\ t \in DOMAIN turns
    /\ turns[t].pc = "embedding"
    /\ \E ok \in BOOLEAN :
        turns' = [turns EXCEPT ![t].pc = "search",
                    ![t].embedding =
                        IF vectorContext /\ ok
                        THEN << llamaEmbedding(turns[t].inputText) >>
                        ELSE null]
    /\ UNCHANGED << activeNoteId, uuidDigits, hasContent, isTyping, messages,
                    usedChunks, chatContext, lastDeleted, writes, filteredOut >>
    /\ UNCHANGED storeVars
    /\ UNCHANGED backendVars
    /\ UNCHANGED passVars
    /\ UNCHANGED apiVars
    /\ UNCHANGED lifeVars

\* await findSimilarChunks(embedding, activeNoteId || ''): the note id is
\* the second argument, the limit.
sendSearch(t) ==
    /\ t \in DOMAIN turns
    /\ turns[t].pc = "search"
    /\ \E found \in findSimilarChunks(turns[t].embedding,
                                       JsString(turns[t].activeNoteId)) :
        turns' = [turns EXCEPT ![t].pc = "context",
                    ![t].similarChunks = found,
                    ![t].afterDelete = (lastDeleted = turns[t].activeNoteId)]
    /\ UNCHANGED << activeNoteId, uuidDigits, hasContent, isTyping, messages,
                    usedChunks, chatContext, lastDeleted, writes, filteredOut >>
    /\ UNCHANGED storeVars
    /\ UNCHANGED backendVars
    /\ UNCHANGED passVars
    /\ UNCHANGED apiVars
    /\ UNCHANGED lifeVars

\* Mutant: the chunks found are not filtered by usedChunks.
NewChunksUnfiltered(similarChunks, used) == similarChunks

\* similarChunks.filter(chunk => !usedChunks.current.has(chunk.chunk))
NewChunks(similarChunks, used) ==
    SelectSeq(similarChunks, LAMBDA c : c.chunk \notin used)

\* No context block at all.
NoContext == [open |-> FALSE, body |-> << >>, close |-> FALSE]

\* Mutant: without a chunk the prompt has no context block.
contextPromptOmitted(contextText) ==
    IF contextText # << >>
    THEN [open |-> TRUE, body |-> contextText, close |-> TRUE]
    ELSE NoContext

\* contextPrompt: '<context>' contextText '</context>' when contextText is
\* not "", '<context></context>' when it is.
contextPrompt(contextText) ==
    IF contextText # << >>
    THEN [open |-> TRUE, body |-> contextText, close |-> TRUE]
    ELSE [open |-> TRUE, body |-> << >>, close |-> TRUE]

\* The prompt handleSend appends to chatContext.current: contextText is the
\* new chunks' texts joined by blank lines, and the first prompt of a chat
\* starts with the system prompt.
Prompt(first, newChunks, inputText) ==
    LET contextText == [i \in DOMAIN newChunks |-> newChunks[i].chunk]
    IN  [kind |-> "prompt", first |-> first, contextText |-> contextText,
         contextPrompt |-> contextPrompt(contextText),
         inputText |-> inputText]

\* The text of a completion, appended to chatContext.current.
Completion ==
    [kind |-> "completion", first |-> FALSE, contextText |-> << >>,
     contextPrompt |-> NoContext, inputText |-> << >>]

\* handleSend from the result of the search to the completion: the new
\* chunks, usedChunks, the prompt; without a model it returns there, and
\* isTyping stays.
sendContext(t) ==
    /\ t \in DOMAIN turns
    /\ turns[t].pc = "context"
    /\ LET newChunks == NewChunks(turns[t].similarChunks, usedChunks)
       IN  /\ usedChunks' = usedChunks \cup
                    {newChunks[i].chunk : i \in DOMAIN newChunks}
           /\ chatContext' = Append(chatContext,
                    Prompt(turns[t].first, newChunks, turns[t].inputText))
           /\ filteredOut' =
                (filteredOut \/ Len(newChunks) < Len(turns[t].similarChunks))
    /\ IF llamaContext
       THEN turns' = [turns EXCEPT ![t].pc = "completion",
                        ![t].similarChunks = << >>, ![t].afterDelete = FALSE]
       ELSE turns' = [turns EXCEPT ![t] = Returned]
    /\ UNCHANGED << activeNoteId, uuidDigits, hasContent, isTyping, messages,
                    lastDeleted, writes >>
    /\ UNCHANGED storeVars
    /\ UNCHANGED backendVars
    /\ UNCHANGED passVars
    /\ UNCHANGED apiVars
    /\ UNCHANGED lifeVars

\* The completion returns: its text goes to chatContext and to the
\* messages; without a result or on an error the apology does; finally
\* isTyping is false.
sendCompletion(t) ==
    /\ t \in DOMAIN turns
    /\ turns[t].pc = "completion"
    /\ \E ok \in BOOLEAN :
        IF ok
        THEN /\ chatContext' = Append(chatContext, Completion)
             /\ addMessage(ReplyText, FALSE)
        ELSE /\ addMessage(ErrorText, FALSE)
             /\ UNCHANGED chatContext
    /\ isTyping' = FALSE
    /\ turns' = [turns EXCEPT ![t] = Returned]
    /\ UNCHANGED << activeNoteId, uuidDigits, hasContent, usedChunks,
                    lastDeleted, writes, filteredOut >>
    /\ UNCHANGED storeVars
    /\ UNCHANGED backendVars
    /\ UNCHANGED passVars
    /\ UNCHANGED apiVars
    /\ UNCHANGED lifeVars

\* storeEmbedding(noteId, chunk, embedding) called by a summarize screen
\* while the chat is open; a failed INSERT changes nothing.
storeEmbedding(noteId, chunk, embedding) ==
    /\ db
    /\ writes < MaxWrites
    /\ \E id \in RandomIds :
        /\ ~InsertFails(id)
        /\ embeddings' = embeddings \cup
                {EmbeddingRow(id, noteId, chunk, embedding, 0)}
    /\ lastDeleted' = NoNote
    /\ writes' = writes + 1
    /\ UNCHANGED << activeNoteId, uuidDigits, hasContent, isTyping, messages,
                    usedChunks, chatContext, turns, filteredOut >>
    /\ UNCHANGED << db, notesTable, notes, deleting >>
    /\ UNCHANGED backendVars
    /\ UNCHANGED passVars
    /\ UNCHANGED apiVars
    /\ UNCHANGED lifeVars

\* deleteNoteEmbeddings(noteId) called by a summarize screen or by deleteNote
\* while the chat is open.
deleteNoteEmbeddings(noteId) ==
    /\ db
    /\ writes < MaxWrites
    /\ embeddings' = RowsAfterDelete(noteId)
    /\ lastDeleted' = noteId
    /\ writes' = writes + 1
    /\ UNCHANGED << activeNoteId, uuidDigits, hasContent, isTyping, messages,
                    usedChunks, chatContext, turns, filteredOut >>
    /\ UNCHANGED << db, notesTable, notes, deleting >>
    /\ UNCHANGED backendVars
    /\ UNCHANGED passVars
    /\ UNCHANGED apiVars
    /\ UNCHANGED lifeVars

\* The rows earlier runs of the app can have left in the table.
PersistedRows ==
    {[id |-> 1, noteId |-> "n1", chunk |-> ShortText,
      embedding |-> llamaEmbedding(ShortText), gen |-> 0, noteExisted |-> TRUE],
     [id |-> 2, noteId |-> "n2", chunk |-> ShortText,
      embedding |-> llamaEmbedding(ShortText), gen |-> 0, noteExisted |-> TRUE],
     [id |-> 3, noteId |-> "n1", chunk |-> << Seg("s1", 200, TRUE) >>,
      embedding |-> llamaEmbedding(<< Seg("s1", 200, TRUE) >>), gen |-> 0,
      noteExisted |-> TRUE]}

\* A chat screen is mounted for the note the user opened, or for none; the
\* database is open and the table holds what earlier runs left.
InitChat ==
    /\ db = TRUE
    /\ notesTable = [n \in NoteIds |-> ShortText]
    /\ embeddings \in SUBSET PersistedRows
    /\ notes = notesTable
    /\ vectorContext = FALSE
    /\ llamaContext = FALSE
    /\ InitPasses
    /\ activeNoteId \in OpenNotes \cup {NoNote}
    /\ uuidDigits \in [OpenNotes -> 0..MaxK]
    /\ InitChatScreen
    /\ lastCall = NoCall
    /\ calls = 0
    /\ InitLife

NextChat ==
    \/ checkContent
    \/ \E inputText \in Queries : handleSend(inputText)
    \/ handleStop
    \/ \E t \in 1..MaxTurns : sendEmbedding(t)
    \/ \E t \in 1..MaxTurns : sendSearch(t)
    \/ \E t \in 1..MaxTurns : sendContext(t)
    \/ \E t \in 1..MaxTurns : sendCompletion(t)
    \/ loadVectorContext
    \/ unloadVectorContext
    \/ loadLlamaContext
    \/ unloadLlamaContext

\* The chat alone: no other screen writes to the table meanwhile.
SpecChat == InitChat /\ [][NextChat]_vars

\* The chat while summarize screens and deleteNote write to the table.
NextChatStore ==
    \/ NextChat
    \/ \E n \in NoteIds, c \in ChunkTexts :
            storeEmbedding(n, c, llamaEmbedding(c))
    \/ \E n \in NoteIds : deleteNoteEmbeddings(n)

SpecChatStore == InitChat /\ [][NextChatStore]_vars

\* ----------------------------------- services/database.ts, called directly
\* A call of a service function: its arguments, whether database.db was set
\* and what the table held when it was made, the values it drew or computed
\* on the way, whether it returned or threw, and what it returned ([] for
\* undefined).
Call(op, args, local, outcome, result) ==
    [op |-> op, args |-> args, db |-> db, before |-> embeddings,
     local |-> local, outcome |-> outcome, result |-> result]

\* The embeddings and chunks the screens call the store with.
StoreChunks == {ShortText, << Seg("s1", 200, TRUE) >>}
StoreEmbeddings == {llamaEmbedding(c) : c \in StoreChunks}
QueryEmbeddings == {null} \cup {<< e >> : e \in StoreEmbeddings}
Limits == {JsNumber(k) : k \in 0..MaxK} \cup {JsNumber(DefaultLimit)}

\* storeEmbedding(noteId, chunk, embedding) from call to return: without a
\* database it logs and returns; else it draws an id and awaits the INSERT,
\* whose error it rethrows.  It returns nothing.
callStoreEmbedding(noteId, chunk, embedding) ==
    /\ calls < MaxCalls
    /\ calls' = calls + 1
    /\ IF ~db
       THEN /\ lastCall' = Call("storeEmbedding", << noteId, chunk, embedding >>,
                                << >>, "returned", << >>)
            /\ UNCHANGED embeddings
       ELSE \E id \in RandomIds, ok \in BOOLEAN :
            IF ok /\ ~InsertFails(id)
            THEN /\ embeddings' = embeddings \cup
                        {EmbeddingRow(id, noteId, chunk, embedding[1], 0)}
                 /\ lastCall' = Call("storeEmbedding",
                        << noteId, chunk, embedding >>, << id >>,
                        "returned", << >>)
            ELSE /\ UNCHANGED embeddings
                 /\ lastCall' = Call("storeEmbedding",
                        << noteId, chunk, embedding >>, << id >>,
                        "thrown", << >>)
    /\ UNCHANGED << db, notesTable, notes, deleting >>
    /\ UNCHANGED backendVars
    /\ UNCHANGED passVars
    /\ UNCHANGED chatVars
    /\ UNCHANGED lifeVars

\* findSimilarChunks(embedding, limit) from call to return; it never throws.
\* local: the arguments of the storeEmbedding that returned right before,
\* if one did, and whether the query threw.
callFindSimilarChunks(embedding, limit) ==
    /\ calls < MaxCalls
    /\ calls' = calls + 1
    /\ LET stored == IF /\ lastCall.op = "storeEmbedding"
                        /\ lastCall.db
                        /\ lastCall.outcome = "returned"
                     THEN << lastCall.args >>
                     ELSE << >>
       IN  \E found \in findSimilarChunks(embedding, limit) :
            lastCall' = Call("findSimilarChunks", << embedding, limit >>,
                    << stored,
                       embedding # null /\ db /\
                            found \notin QueryRows(embedding, limit) >>,
                    "returned", found)
    /\ UNCHANGED storeVars
    /\ UNCHANGED backendVars
    /\ UNCHANGED passVars
    /\ UNCHANGED chatVars
    /\ UNCHANGED lifeVars

\* deleteNoteEmbeddings(noteId) from call to return: without a database it
\* logs and returns; else it awaits the DELETE, whose error it rethrows.  It
\* returns nothing.  local: the call before was the same DELETE, done.
callDeleteNoteEmbeddings(noteId) ==
    /\ calls < MaxCalls
    /\ calls' = calls + 1
    /\ LET again == /\ lastCall.op = "deleteNoteEmbeddings"
                    /\ lastCall.args = << noteId >>
                    /\ lastCall.db
                    /\ lastCall.outcome = "returned"
       IN  IF ~db
           THEN /\ lastCall' = Call("deleteNoteEmbeddings", << noteId >>,
                                    << again >>, "returned", << >>)
                /\ UNCHANGED embeddings
           ELSE \E ok \in BOOLEAN :
                IF ok
                THEN /\ embeddings' = RowsAfterDelete(noteId)
                     /\ lastCall' = Call("deleteNoteEmbeddings", << noteId >>,
                                         << again >>, "returned", << >>)
                ELSE /\ UNCHANGED embeddings
                     /\ lastCall' = Call("deleteNoteEmbeddings", << noteId >>,
                                         << again >>, "thrown", << >>)
    /\ UNCHANGED << db, notesTable, notes, deleting >>
    /\ UNCHANGED backendVars
    /\ UNCHANGED passVars
    /\ UNCHANGED chatVars
    /\ UNCHANGED lifeVars

\* The app is started on an empty table; the screens call the store.
InitStore ==
    /\ db = FALSE
    /\ notesTable = [n \in NoteIds |-> ShortText]
    /\ embeddings = {}
    /\ notes = << >>
    /\ vectorContext = FALSE
    /\ llamaContext = FALSE
    /\ InitPasses
    /\ activeNoteId = NoNote
    /\ uuidDigits = [n \in OpenNotes |-> 0]
    /\ InitChatScreen
    /\ lastCall = NoCall
    /\ calls = 0
    /\ InitLife

NextStore ==
    \/ initDatabase
    \/ \E n \in NoteIds, c \in StoreChunks, e \in StoreEmbeddings :
            callStoreEmbedding(n, c, << e >>)
    \/ \E e \in QueryEmbeddings, limit \in Limits :
            callFindSimilarChunks(e, limit)
    \/ \E n \in NoteIds : callDeleteNoteEmbeddings(n)

SpecStore == InitStore /\ [][NextStore]_vars

\* ------------------------------------- services/vector.ts, called directly
\* Mutant: generateEmbedding loads the vector context when it finds none.
EmbeddingBackendLazy(loaded) == TRUE

\* generateEmbedding takes vectorContext.llama as it finds it and never
\* assigns it.
EmbeddingBackend(loaded) == loaded

\* generateEmbedding(text) from call to return: null without a vector
\* context; else the model's embedding, or null when the model throws.
\* local: vectorContext.llama was set at the call, llama.embedding was
\* called, vectorContext.llama is set at the return.
callGenerateEmbedding(text) ==
    /\ calls < MaxCalls
    /\ calls' = calls + 1
    /\ LET usable == EmbeddingBackend(vectorContext)
       IN  /\ vectorContext' = usable
           /\ IF ~usable
              THEN lastCall' = Call("generateEmbedding", << text >>,
                        << vectorContext, FALSE, usable >>, "returned",
                        << null >>)
              ELSE \E ok \in BOOLEAN :
                   lastCall' = Call("generateEmbedding", << text >>,
                        << vectorContext, TRUE, usable >>, "returned",
                        << IF ok THEN << llamaEmbedding(text) >> ELSE null >>)
    /\ UNCHANGED llamaContext
    /\ UNCHANGED storeVars
    /\ UNCHANGED passVars
    /\ UNCHANGED chatVars
    /\ UNCHANGED lifeVars

\* The vectors cosineSimilarity is called with.
Vectors == UNION {[1..n -> 0..2] : n \in 0..MaxDim}

\* The sum of f[i] * g[i] for i in 1..n; an entry past the end of an array
\* is undefined and makes the sum NaN.
RECURSIVE SumOfProducts(_, _, _)
SumOfProducts(f, g, n) ==
    IF n = 0 THEN [nan |-> FALSE, sum |-> 0]
    ELSE LET rest == SumOfProducts(f, g, n - 1)
         IN  IF n > Len(f) \/ n > Len(g) \/ rest.nan
             THEN [nan |-> TRUE, sum |-> 0]
             ELSE [nan |-> FALSE, sum |-> rest.sum + f[n] * g[n]]

\* dotProduct / (Math.sqrt(norm1) * Math.sqrt(norm2)), kept as its three
\* sums; 0 / 0 is NaN.
Quotient(dotProduct, norm1, norm2) ==
    [nan |-> dotProduct.nan \/ norm1.nan \/ norm2.nan \/
             norm1.sum = 0 \/ norm2.sum = 0,
     dotProduct |-> dotProduct.sum, norm1 |-> norm1.sum, norm2 |-> norm2.sum]

\* Mutant: no check of the lengths; the loop runs over embedding1.
cosineSimilarityUnchecked(embedding1, embedding2) ==
    [outcome |-> "returned",
     result |-> << Quotient(
        SumOfProducts(embedding1, embedding2, Len(embedding1)),
        SumOfProducts(embedding1, embedding1, Len(embedding1)),
        SumOfProducts(embedding2, embedding2, Len(embedding1))) >>]

\* cosineSimilarity(embedding1, embedding2): throws 'Embeddings must have
\* the same length' when they differ, else the quotient.
cosineSimilarity(embedding1, embedding2) ==
    IF Len(embedding1) # Len(embedding2)
    THEN [outcome |-> "thrown", result |-> << >>]
    ELSE [outcome |-> "returned",
          result |-> << Quotient(
            SumOfProducts(embedding1, embedding2, Len(embedding1)),
            SumOfProducts(embedding1, embedding1, Len(embedding1)),
            SumOfProducts(embedding2, embedding2, Len(embedding1))) >>]

callCosineSimilarity(embedding1, embedding2) ==
    /\ calls < MaxCalls
    /\ calls' = calls + 1
    /\ LET r == cosineSimilarity(embedding1, embedding2)
       IN  lastCall' = Call("cosineSimilarity", << embedding1, embedding2 >>,
                            << >>, r.outcome, r.result)
    /\ UNCHANGED storeVars
    /\ UNCHANGED backendVars
    /\ UNCHANGED passVars
    /\ UNCHANGED chatVars
    /\ UNCHANGED lifeVars

\* The app is started; the screens call the vector service.
NextVector ==
    \/ loadVectorContext
    \/ unloadVectorContext
    \/ \E text \in StoreChunks : callGenerateEmbedding(text)
    \/ \E a \in Vectors, b \in Vectors : callCosineSimilarity(a, b)

SpecVector == InitStore /\ [][NextVector]_vars

\* ------------------------------- splitIntoChunks, called on any note text
\* The sentences a text is made of, each ending in '.', '!' or '?'.
Terminated == {Seg("a", 1, TRUE), Seg("b", 2, TRUE)}
\* What can follow the last terminator: nothing, a fragment, whitespace, or
\* a fragment and whitespace.
Tails == {<< >>, << Seg("c", 1, FALSE) >>, << Seg("ws", 0, FALSE) >>,
          << Seg("c", 1, FALSE), Seg("ws", 0, FALSE) >>}
\* The texts splitIntoChunks is called with.
ChunkerTexts ==
    {t \in {p \o f : p \in UNION {[1..n -> Terminated] : n \in 0..MaxSegs},
                     f \in Tails} : Len(t) <= MaxSegs}
\* The targetLength values: small ones that the texts exceed, and the default.
TargetLengths == (0..MaxTarget) \cup {DefaultTargetLength}

callSplitIntoChunks(text, targetLength) ==
    /\ calls < MaxCalls
    /\ calls' = calls + 1
    /\ lastCall' = Call("splitIntoChunks", << text, targetLength >>, << >>,
                        "returned", splitIntoChunks(text, targetLength))
    /\ UNCHANGED storeVars
    /\ UNCHANGED backendVars
    /\ UNCHANGED passVars
    /\ UNCHANGED chatVars
    /\ UNCHANGED lifeVars

NextChunker ==
    \E text \in ChunkerTexts, targetLength \in TargetLengths :
        callSplitIntoChunks(text, targetLength)

SpecChunker == InitStore /\ [][NextChunker]_vars

\* ---------------------- services/vector.ts: the load and unload, by await
\* The latest of loadVectorContext and unloadVectorContext to be called, and
\* whether a load had set a context before it.
Request(kind) == [kind |-> kind, afterLoad |-> ctxNext > 0]

\* loadVectorContext up to its await: it returns at once when
\* vectorContext.llama is set, else it calls initLlama.
loadVectorContextCalled ==
    /\ requests < MaxRequests
    /\ requests' = requests + 1
    /\ lastRequest' = Request("load")
    /\ loads' = IF ctxHandle # 0 THEN loads ELSE loads + 1
    /\ UNCHANGED << ctxHandle, ctxLive, ctxNext, releasing >>
    /\ UNCHANGED initVars
    /\ UNCHANGED storeVars
    /\ UNCHANGED backendVars
    /\ UNCHANGED passVars
    /\ UNCHANGED chatVars
    /\ UNCHANGED apiVars

\* initLlama resolves and its context is assigned to vectorContext.llama,
\* whatever that holds by now; or it rejects and the catch returns false.
initLlamaReturns ==
    /\ loads > 0
    /\ loads' = loads - 1
    /\ \E ok \in BOOLEAN :
        IF ok
        THEN /\ ctxNext' = ctxNext + 1
             /\ ctxLive' = ctxLive \cup {ctxNext + 1}
             /\ ctxHandle' = ctxNext + 1
             /\ vectorContext' = TRUE
        ELSE UNCHANGED << ctxNext, ctxLive, ctxHandle, vectorContext >>
    /\ UNCHANGED << releasing, lastRequest, requests, llamaContext >>
    /\ UNCHANGED initVars
    /\ UNCHANGED storeVars
    /\ UNCHANGED passVars
    /\ UNCHANGED chatVars
    /\ UNCHANGED apiVars

\* unloadVectorContext up to its await: with a context set it calls the
\* context's release(), else it does nothing.
unloadVectorContextCalled ==
    /\ requests < MaxRequests
    /\ requests' = requests + 1
    /\ lastRequest' = Request("unload")
    /\ releasing' = IF ctxHandle # 0 THEN Append(releasing, ctxHandle)
                    ELSE releasing
    /\ UNCHANGED << ctxHandle, ctxLive, ctxNext, loads >>
    /\ UNCHANGED initVars
    /\ UNCHANGED storeVars
    /\ UNCHANGED backendVars
    /\ UNCHANGED passVars
    /\ UNCHANGED chatVars
    /\ UNCHANGED apiVars

\* release() resolves: the context is released and vectorContext.llama is
\* set to null, whatever it holds by now.
releaseReturns(i) ==
    /\ i \in DOMAIN releasing
    /\ ctxLive' = ctxLive \ {releasing[i]}
    /\ ctxHandle' = 0
    /\ vectorContext' = FALSE
    /\ releasing' = [k \in 1..(Len(releasing) - 1) |->
                        IF k < i THEN releasing[k] ELSE releasing[k + 1]]
    /\ UNCHANGED << ctxNext, loads, lastRequest, requests, llamaContext >>
    /\ UNCHANGED initVars
    /\ UNCHANGED storeVars
    /\ UNCHANGED passVars
    /\ UNCHANGED chatVars
    /\ UNCHANGED apiVars

\* The list screen's mount effect and its AppState handler call the two
\* without awaiting them.
NextContext ==
    \/ loadVectorContextCalled
    \/ initLlamaReturns
    \/ unloadVectorContextCalled
    \/ \E i \in 1..MaxRequests : releaseReturns(i)

SpecContext == InitStore /\ [][NextContext]_vars

\* ------------------- services/database.ts: initDatabase and its callbacks
\* onDatabaseInitialized(callback): the callback is pushed on initCallbacks.
onDatabaseInitialized(callback) ==
    /\ callback \notin registered
    /\ registered' = registered \cup {callback}
    /\ initCallbacks' = Append(initCallbacks, callback)
    /\ UNCHANGED << initPc, invoked >>
    /\ UNCHANGED << ctxHandle, ctxLive, ctxNext, loads, releasing, lastRequest,
                    requests >>
    /\ UNCHANGED storeVars
    /\ UNCHANGED backendVars
    /\ UNCHANGED passVars
    /\ UNCHANGED chatVars
    /\ UNCHANGED apiVars

\* The app's mount effect calls initDatabase, which awaits open().
initDatabaseCalled ==
    /\ initPc = "idle"
    /\ initPc' = "opening"
    /\ UNCHANGED << initCallbacks, registered, invoked >>
    /\ UNCHANGED << ctxHandle, ctxLive, ctxNext, loads, releasing, lastRequest,
                    requests >>
    /\ UNCHANGED storeVars
    /\ UNCHANGED backendVars
    /\ UNCHANGED passVars
    /\ UNCHANGED chatVars
    /\ UNCHANGED apiVars

\* The number of times callback is in the list.
Occurrences(list, callback) ==
    Cardinality({i \in DOMAIN list : list[i] = callback})

\* open() and the CREATE statements are through: database.db is set, every
\* callback of initCallbacks is called and the list is emptied; or one of
\* them threw, and initDatabase rethrows with nothing done.
initDatabaseReturns ==
    /\ initPc = "opening"
    /\ \E ok \in BOOLEAN :
        IF ok
        THEN /\ initPc' = "done"
             /\ db' = TRUE
             /\ invoked' = [c \in Callbacks |->
                              invoked[c] + Occurrences(initCallbacks, c)]
             /\ initCallbacks' = << >>
        ELSE /\ initPc' = "failed"
             /\ UNCHANGED << db, invoked, initCallbacks >>
    /\ UNCHANGED registered
    /\ UNCHANGED << ctxHandle, ctxLive, ctxNext, loads, releasing, lastRequest,
                    requests >>
    /\ UNCHANGED << notesTable, embeddings, notes, deleting >>
    /\ UNCHANGED backendVars
    /\ UNCHANGED passVars
    /\ UNCHANGED chatVars
    /\ UNCHANGED apiVars

\* The app starts: its mount effect initializes the database while screens
\* register their callbacks.
NextInit ==
    \/ \E callback \in Callbacks : onDatabaseInitialized(callback)
    \/ initDatabaseCalled
    \/ initDatabaseReturns

SpecInit == InitStore /\ [][NextInit]_vars

Next ==
    \/ initDatabase
    \/ fetchNotes
    \/ \E n \in OpenNotes, t \in Texts : updateNoteContent(n, t)
    \/ \E n \in OpenNotes : deleteNoteEmbeddingRows(n)
    \/ \E n \in OpenNotes : deleteNoteRow(n)
    \/ loadVectorContext
    \/ unloadVectorContext
    \/ loadLlamaContext
    \/ unloadLlamaContext
    \/ \E s \in Screens : mountSummarizeScreen(s)
    \/ \E s \in Screens, n \in OpenNotes : generateSummary(s, n)
    \/ \E s \in Screens : summaryCompletion(s)
    \/ \E s \in Screens : titleCompletion(s)
    \/ \E s \in Screens : summaryUpdateNote(s)
    \/ \E s \in Screens : pasDelete(s)
    \/ \E s \in Screens : pasEmbed(s)
    \/ \E s \in Screens : pasStore(s)
    \/ \E s \in Screens : pasReturn(s)

Spec == Init /\ [][Next]_vars

\* ------------------------------------------------------------------ claims

\* The rows of the note of s are one per chunk of its text, all written by
\* this invocation.
RowsMatchChunks(s) ==
    LET rows == RowsOf(pNoteId[s])
        chunks == chunksOf(s)
    IN  /\ Cardinality(rows) = Len(chunks)
        /\ \A r \in rows : r.gen = gen[s]
        /\ \A c \in Range(chunks) :
              Cardinality({r \in rows : r.chunk = c}) =
              Cardinality({i \in DOMAIN chunks : chunks[i] = c})

\* C2: when processAndStoreEmbeddings returns with every chunk stored and no
\* other operation has written the note's rows since its DELETE, the rows of
\* the note are exactly one per chunk of the new text, none from before.
C2_ReplaceSemantics ==
    \A s \in Screens :
        (/\ pc[s] = "pas_done"
         /\ foreign[s] = {}
         /\ \A i \in DOMAIN outcomes[s] : outcomes[s][i] = "stored")
        => RowsMatchChunks(s)

\* The first invocation of the run has replaced the one row the note had by
\* the two rows of its new, longer text.
C2_Witness ==
    \E s \in Screens :
        /\ pc[s] = "pas_done"
        /\ gen[s] = 1
        /\ clock = 1
        /\ deleting = {}
        /\ pNoteId[s] \in DOMAIN notesTable
        /\ pText[s] = LongText
        /\ outcomes[s] = << "stored", "stored" >>
        /\ foreign[s] = {}

\* C3: every row an invocation in flight has written was written after the
\* DELETE of that invocation had executed, and while the DELETE is awaited
\* no chunk has been gone through.
C3_DeleteBeforeInsert ==
    \A s \in Screens :
        /\ pc[s] = "pas_delete" => outcomes[s] = << >> /\ ~deleted[s]
        /\ pc[s] = "pas_store" => deleted[s]
        /\ \A r \in embeddings : (gen[s] > 0 /\ r.gen = gen[s]) => deleted[s]

\* An invocation in flight has a row in the table.
C3_Witness ==
    \E s \in Screens : \E r \in embeddings :
        gen[s] > 0 /\ r.gen = gen[s] /\ deleted[s]

\* C4: no DELETE of an invocation removes a row written by an invocation
\* that started after it.
C4_NoStaleDelete == ~staleHit

\* C5: while an invocation is inserting the rows of its note, no other
\* operation deletes the rows of that note.
C5_CriticalSection ==
    \A s \in Screens : pc[s] \in InsertPhase => "delete" \notin foreign[s]

\* C6: every row was written while the notes table held its note.
C6_NoteExistsAtWrite == \A r \in embeddings : r.noteExisted

\* C7: a chunk whose embedding or insert fails is passed over: its error
\* never leaves processAndStoreEmbeddings, the function returns having gone
\* through every chunk, and unless another operation deleted them the rows
\* of the chunks it stored are in the table.
C7_ChunkFailureSkipped ==
    /\ ~escaped
    /\ \A s \in Screens :
        pc[s] = "pas_done" =>
            /\ Len(outcomes[s]) = Len(chunksOf(s))
            /\ "delete" \notin foreign[s] =>
                \A i \in DOMAIN outcomes[s] :
                    outcomes[s][i] = "stored" =>
                        \E r \in RowsOf(pNoteId[s]) :
                            r.gen = gen[s] /\ r.chunk = chunksOf(s)[i]

\* The insert of the first chunk failed, the second chunk was stored, and
\* the function is returning.
C7_Witness ==
    \E s \in Screens :
        /\ pc[s] = "pas_done"
        /\ outcomes[s] = << "error", "stored" >>
        /\ \E r \in embeddings : r.gen = gen[s] /\ r.chunk = chunksOf(s)[2]

\* C8: processAndStoreEmbeddings does not return normally when it met a
\* null database or a null vector context.
C8_UnavailablePropagates ==
    \A s \in Screens : pc[s] = "pas_done" => ~unavailable[s]

\* The prompts of the chat so far, in the order they were built.
Prompts == SelectSeq(chatContext, LAMBDA e : e.kind = "prompt")

\* C1: a chunk text that is in the context of one prompt of the chat is in
\* the context of no later prompt.
C1_NoResupply ==
    \A i, j \in DOMAIN Prompts :
        i < j => Range(Prompts[i].contextText) \cap
                 Range(Prompts[j].contextText) = {}

\* A later prompt was built from a search that returned a chunk an earlier
\* prompt had in its context, and the chunk was left out.
C1_Witness ==
    /\ filteredOut
    /\ Len(Prompts) >= 2
    /\ Prompts[1].contextText # << >>

\* C9: every chunk a search of the chat returns is of the note the chat is
\* about.
C9_ScopedSearch ==
    \A t \in DOMAIN turns :
        \A i \in DOMAIN turns[t].similarChunks :
            turns[t].similarChunks[i].noteId = turns[t].activeNoteId

\* C10: a search for a note made right after the rows of that note were
\* deleted returns nothing.
C10_EmptyAfterDelete ==
    \A t \in DOMAIN turns :
        turns[t].afterDelete => turns[t].similarChunks = << >>

\* ------------------------------------------------- the store, called directly
\* C11: a search made while database.db is not set throws (StoreUnavailable)
\* instead of returning.
C11_StoreUnavailable ==
    (/\ lastCall.op = "findSimilarChunks"
     /\ lastCall.args[1] # null
     /\ ~lastCall.db)
    => lastCall.outcome = "thrown"

C13_RoundTrip ==
    (/\ lastCall.op = "findSimilarChunks"
     /\ lastCall.local[1] # << >>
     /\ ~lastCall.local[2]
     /\ lastCall.args[2] = JsNumber(1)
     /\ lastCall.args[1] = lastCall.local[1][1][3]
     /\ Cardinality({r \in lastCall.before :
                        /\ r.noteId = lastCall.local[1][1][1]
                        /\ << r.embedding >> = lastCall.args[1]}) = 1)
    => /\ Len(lastCall.result) = 1
       /\ lastCall.result[1].chunk = lastCall.local[1][1][2]

\* C14: the id a storeEmbedding draws is the id of no row the table holds.
C14_FreshId ==
    (lastCall.op = "storeEmbedding" /\ lastCall.db) =>
        lastCall.local[1] \notin {r.id : r \in lastCall.before}

\* The rows of a note among those the table held when the call was made.
RowsBefore(noteId) == {r \in lastCall.before : r.noteId = noteId}

\* C15 as stated: with the database open, a second delete changes nothing,
\* and the delete for a note without rows returns the count 0.
C15_DeleteReportsCount ==
    (/\ lastCall.op = "deleteNoteEmbeddings"
     /\ lastCall.db
     /\ lastCall.outcome = "returned") =>
        /\ lastCall.local[1] => embeddings = lastCall.before
        /\ RowsBefore(lastCall.args[1]) = {} => lastCall.result = << 0 >>

\* C15 amended: a delete that returns with the database open leaves no row
\* of the note and every other row; a second one right after it changes
\* nothing; the delete for a note without rows changes nothing; and the
\* function returns no value.
C15_DeleteIdempotent ==
    (lastCall.op = "deleteNoteEmbeddings" /\ lastCall.outcome = "returned") =>
        /\ lastCall.db =>
                embeddings = lastCall.before \ RowsBefore(lastCall.args[1])
        /\ lastCall.local[1] => embeddings = lastCall.before
        /\ RowsBefore(lastCall.args[1]) = {} => embeddings = lastCall.before
        /\ lastCall.result = << >>

\* A delete for a note returned right after a delete for that note had.
C15_Witness ==
    /\ lastCall.op = "deleteNoteEmbeddings"
    /\ lastCall.outcome = "returned"
    /\ lastCall.db
    /\ lastCall.local[1]
    /\ RowsBefore(lastCall.args[1]) = {}

\* ---------------------------------------- the vector service, called directly
\* C16: a generateEmbedding called without a vector context returns null
\* without calling the model and without loading a context.
C16_NoLazyInit ==
    (lastCall.op = "generateEmbedding" /\ ~lastCall.local[1]) =>
        /\ ~lastCall.local[2]
        /\ ~lastCall.local[3]
        /\ lastCall.result = << null >>

\* generateEmbedding was called without a vector context and has returned.
C16_Witness ==
    /\ lastCall.op = "generateEmbedding"
    /\ ~lastCall.local[1]
    /\ lastCall.outcome = "returned"

\* C17: cosineSimilarity of two vectors of different lengths throws and
\* computes no value.
C17_DimensionMismatch ==
    (/\ lastCall.op = "cosineSimilarity"
     /\ Len(lastCall.args[1]) # Len(lastCall.args[2]))
    => lastCall.outcome = "thrown" /\ lastCall.result = << >>

\* cosineSimilarity was called with a vector of two and a vector of one.
C17_Witness ==
    /\ lastCall.op = "cosineSimilarity"
    /\ Len(lastCall.args[1]) = 2
    /\ Len(lastCall.args[2]) = 1
    /\ lastCall.outcome = "thrown"

\* ------------------------------------------------------------ the chunker
\* C18: splitIntoChunks returns no empty chunk, and every chunk but the last
\* has at most targetLength words unless it is one sentence alone.
C18_ChunkBounds ==
    lastCall.op = "splitIntoChunks" =>
        \A i \in DOMAIN lastCall.result :
            /\ lastCall.result[i] # << >>
            /\ trim(lastCall.result[i]) # << >>
            /\ i < Len(lastCall.result) =>
                  \/ SumWords(lastCall.result[i]) <= lastCall.args[2]
                  \/ Len(lastCall.result[i]) = 1

\* A call returned a first chunk of several sentences followed by another
\* chunk.
C18_Witness ==
    /\ lastCall.op = "splitIntoChunks"
    /\ Len(lastCall.result) >= 2
    /\ Len(lastCall.result[1]) >= 2

\* The chunks one after the other.
RECURSIVE Concatenated(_)
Concatenated(chunks) ==
    IF chunks = << >> THEN << >>
    ELSE Head(chunks) \o Concatenated(Tail(chunks))

\* The sentences of a text as the reader sees them: every terminated
\* sentence and a trailing fragment, whitespace aside.
SentenceSequence(text) == SelectSeq(text, LAMBDA g : g.t \/ g.w > 0)

\* C19: the chunks in order are the text's sentences, a trailing fragment
\* without a terminator included.
C19_SentencesPreserved ==
    lastCall.op = "splitIntoChunks" =>
        Concatenated(lastCall.result) = SentenceSequence(lastCall.args[1])

\* The text has no '.', '!' or '?'.
NoTerminator(text) == \A i \in DOMAIN text : ~text[i].t

\* C20 as stated: a text without a terminator gives exactly one chunk, the
\* trimmed text.
C20_OneChunk ==
    (lastCall.op = "splitIntoChunks" /\ NoTerminator(lastCall.args[1])) =>
        lastCall.result = << trim(lastCall.args[1]) >>

\* C20, amended: a text without a terminator gives one chunk, the trimmed
\* text, when it is not blank, and no chunk when it is empty or whitespace.
C20_OneChunkUnlessBlank ==
    (lastCall.op = "splitIntoChunks" /\ NoTerminator(lastCall.args[1])) =>
        IF trim(lastCall.args[1]) = << >>
        THEN lastCall.result = << >>
        ELSE lastCall.result = << trim(lastCall.args[1]) >>

\* A fragment followed by whitespace was split into its one trimmed chunk.
C20_Witness ==
    /\ lastCall.op = "splitIntoChunks"
    /\ NoTerminator(lastCall.args[1])
    /\ Len(lastCall.args[1]) = 2
    /\ lastCall.result = << trim(lastCall.args[1]) >>

\* ------------------------------------------------------- the chat's prompts
\* C21: every prompt of a chat turn has the context block: the new chunks
\* between <context> and </context>, or the empty pair when there is none.
C21_ContextMarker ==
    \A i \in DOMAIN Prompts :
        /\ Prompts[i].contextPrompt.open
        /\ Prompts[i].contextPrompt.close
        /\ Prompts[i].contextPrompt.body = Prompts[i].contextText

\* A turn found no new chunk and its prompt was built.
C21_Witness ==
    \E i \in DOMAIN Prompts :
        /\ Prompts[i].contextText = << >>
        /\ Prompts[i].contextPrompt.open
        /\ Prompts[i].contextPrompt.body = << >>

\* C22: every chunk text the session has used is the text of a row of the
\* note the chat is about.
C22_SessionOneNote ==
    \A c \in usedChunks :
        \E r \in embeddings : r.noteId = activeNoteId /\ r.chunk = c

\* The model has answered in this chat.
Answered == \E i \in DOMAIN chatContext : chatContext[i].kind = "completion"

\* C23 as stated: a turn sent when the turns before it are over is built as
\* a first turn exactly when none of them has had a successful completion.
C23_EmptyUntilReply ==
    \A t \in DOMAIN turns :
        (/\ turns[t].pc = "embedding"
         /\ \A u \in 1..(t - 1) : turns[u].pc = "returned")
        => (turns[t].first <=> ~Answered)

\* C23, amended: the turn of the first message sent is built as a first
\* turn and no later turn is, whether or not a completion has succeeded;
\* the chat has at most one first prompt.
C23_ActiveAfterFirstSend ==
    /\ \A t \in DOMAIN turns :
            turns[t].pc \in {"embedding", "search", "context", "completion"}
                => (turns[t].first <=> t = 1)
    /\ \A i, j \in DOMAIN Prompts :
            (Prompts[i].first /\ Prompts[j].first) => i = j

\* The first turn's completion failed, and the second turn's prompt was
\* built as a later prompt.
C23_Witness ==
    /\ ~Answered
    /\ \E i \in DOMAIN messages : messages[i].text = ErrorText
    /\ Len(Prompts) = 2
    /\ Prompts[1].first
    /\ ~Prompts[2].first

\* C24: while the chat takes a question about its note (the send button is
\* shown and enabled), the table holds a row of the note.
C24_ChatOnlyWithRecords ==
    (hasContent /\ ~isTyping) =>
        \E r \in embeddings : r.noteId = activeNoteId

\* C26: when every handleSend has returned, isTyping is false.
C26_TypingEnds ==
    (\A t \in DOMAIN turns : turns[t].pc = "returned") => ~isTyping

\* C30: no prompt has the same chunk text twice in its context.
C30_NoRepeatInContext ==
    \A p \in DOMAIN Prompts :
        \A i, j \in DOMAIN Prompts[p].contextText :
            i < j => Prompts[p].contextText[i] # Prompts[p].contextText[j]

\* ------------------------------------------------- deleteNote, isLoading
\* C25: a deleteNote(n) that has deleted the rows of n completes with no row
\* of n in the table.  Its last step, the DELETE of the note and the
\* reducer, leaves the embeddings as it finds them.
C25_DeleteNoteRemovesRows ==
    \A n \in deleting : RowsOf(n) = {}

\* C27: when no generateSummary of a screen is in flight, its isLoading is
\* false.
C27_LoadingEnds ==
    \A s \in Screens : pc[s] = "idle" => ~isLoading[s]

\* --------------------------------------------- the vector context's handle
\* C28: when the latest call is an unloadVectorContext made after a load had
\* set a context, and no call is in flight, vectorContext.llama is null and
\* no initialized context is unreleased; and no two initLlama are in flight
\* together.
C28_HandleFollowsLastRequest ==
    /\ (/\ lastRequest.kind = "unload"
        /\ lastRequest.afterLoad
        /\ loads = 0
        /\ releasing = << >>)
       => (ctxHandle = 0 /\ ctxLive = {})
    /\ loads <= 1

\* ------------------------------------------ the callbacks of initDatabase
\* C29: once initDatabase has succeeded every callback registered so far,
\* before or after, has been called exactly once; until then, and when it
\* has failed, none has been called.
C29_CallbacksOnce ==
    /\ initPc = "done" => \A c \in registered : invoked[c] = 1
    /\ initPc # "done" => \A c \in Callbacks : invoked[c] = 0
    /\ \A c \in Callbacks : invoked[c] <= 1

====
